---------------------------- MODULE Spec2Model ----------------------------
(***************************************************************************)
(* The chat server of a3_chat_server/__main__.py: one accept loop, one     *)
(* handler thread per accepted connection, two process-wide dictionaries   *)
(* (clients, client_sockets) that the handler threads read and write       *)
(* without any lock.  A step of the model is one access of a handler to a  *)
(* shared dictionary or to a socket; the statements in between only touch  *)
(* the handler's locals and are folded into the step before them.          *)
(*                                                                         *)
(* Text is modelled as a sequence of atoms.  An atom is either one single  *)
(* character that the code looks at (" ", a tab, ",", "#", ...) or a chunk  *)
(* of ordinary characters ("HELLO-FROM", "a", "hi") holding no white space *)
(* and no illegal character, or one byte that is not valid UTF-8.          *)
(***************************************************************************)
EXTENDS Integers, Sequences, FiniteSets, TLC

\* Number of connections the accept loop accepts in a run of the model.
NumConns == 2

\* The largest capacity of the directory in a run of the model.  The source
\* sets the global max_users to 16 (line 8); the model runs the same code
\* with each capacity 1 .. MaxCapacity, so that "full" is reached.
MaxCapacity == 2

\* Number of lines the clients send, all connections together, in a run of
\* the model.
MaxLines == 3

\* The same for the runs of SpecLong, which take their lines from LongLines.
MaxLongLines == 4

\* The same for the runs of SpecShutdown (lines from ShutdownLines).
MaxShutdownLines == 3

\* Number of times cleanup is run in a run of SpecShutdown.
MaxCleanups == 2

\* Longest byte stream fed to the frame reader in a run of SpecFrames.
MaxStream == 4

\* The lines received in a run of SpecWire (lines from WireLines).
MaxWireLines == 3

\* The sends of a run of SpecWire that take only part of their data.
MaxPartial == 1

Conns == 1 .. NumConns

\* Python's None for a user name (a value no line can produce).
None == <<"<None>">>

(***************************************************************************)
(* Text helpers: str.split(sep, 1), str.strip(), sep.join(...)             *)
(***************************************************************************)
Whitespace == {" ", "\t"}

illegal_chars == {"!", "@", "#", "$", "%", "^", "&", "*", ",", " "}

\* Index of the first occurrence of sep in s, 0 when there is none.
FirstIndex(s, sep) ==
    IF \E i \in 1 .. Len(s) : s[i] = sep
    THEN CHOOSE i \in 1 .. Len(s) :
            s[i] = sep /\ \A j \in 1 .. (i - 1) : s[j] # sep
    ELSE 0

\* s.split(sep, 1): one part when sep does not occur, else two.
Split1(s, sep) ==
    LET i == FirstIndex(s, sep)
    IN  IF i = 0 THEN <<s>>
        ELSE <<SubSeq(s, 1, i - 1), SubSeq(s, i + 1, Len(s))>>

\* s.strip(): leading and trailing white space removed.
Strip(s) ==
    LET keep == {i \in 1 .. Len(s) : s[i] \notin Whitespace}
    IN  IF keep = {} THEN <<>>
        ELSE LET lo == CHOOSE i \in keep : \A j \in keep : i <= j
                 hi == CHOOSE i \in keep : \A j \in keep : j <= i
             IN  SubSeq(s, lo, hi)

\* A byte that no UTF-8 text holds (0xFF).
InvalidByte == "<0xFF>"

\* bytes.decode('utf-8') succeeds: every atom of the line is text.
Decodable(line) == \A i \in 1 .. Len(line) : line[i] # InvalidByte

\* ",".join(ks)
RECURSIVE Join(_)
Join(ks) ==
    IF ks = <<>> THEN <<>>
    ELSE IF Len(ks) = 1 THEN ks[1]
    ELSE ks[1] \o <<",">> \o Join(Tail(ks))

(***************************************************************************)
(* A dict in insertion order: a sequence of <<key, value>> pairs with      *)
(* distinct keys.                                                          *)
(***************************************************************************)
Keys(d) == [i \in 1 .. Len(d) |-> d[i][1]]

Has(d, k) == \E i \in 1 .. Len(d) : d[i][1] = k

Get(d, k) == d[CHOOSE i \in 1 .. Len(d) : d[i][1] = k][2]

\* d[k] = v: an existing key keeps its place.
Put(d, k, v) ==
    IF Has(d, k)
    THEN [i \in 1 .. Len(d) |-> IF d[i][1] = k THEN <<k, v>> ELSE d[i]]
    ELSE Append(d, <<k, v>>)

\* del d[k], for a key that is present.
Del(d, k) == SelectSeq(d, LAMBDA e : e[1] # k)

(***************************************************************************)
(* The lines the clients send.                                             *)
(***************************************************************************)
Lines ==
    { <<"HELLO-FROM", " ", "a">>,
      <<"HELLO-FROM", " ", "b">>,
      <<"HELLO-FROM">>,
      <<"HELLO-FROM", " ">>,
      <<"HELLO-FROM", " ", "a", "#">>,
      <<"HELLO-FROM", " ", "a", " ", "b">>,
      <<"LIST">>,
      <<"LIST", " ", "x">>,
      <<"SEND", " ", "a", " ", "hi">>,
      <<"SEND", " ", "b", " ", "hi", " ", "x">>,
      <<"SEND", " ", "b", " ">>,
      <<"SEND", " ", "b">>,
      <<>>,
      <<"x">>,
      <<"x", InvalidByte>> }

\* The lines of the longer runs (SpecLong): fewer kinds of line, one more
\* line in a run.
LongLines ==
    { <<"HELLO-FROM", " ", "a">>,
      <<"HELLO-FROM", " ", "b">>,
      <<"HELLO-FROM", " ", "c">>,
      <<"LIST">>,
      <<"SEND", " ", "a", " ", "hi">> }

\* The lines of the runs with a shutdown (SpecShutdown).
ShutdownLines ==
    { <<"HELLO-FROM", " ", "a">>,
      <<"HELLO-FROM", " ", "b">>,
      <<"LIST">>,
      <<"SEND", " ", "a", " ", "hi">> }

VARIABLES
    max_users,        \* the capacity (a global the handlers only read)
    clients,          \* username -> socket
    client_sockets,   \* socket -> (username, authenticated)
    sock,             \* per connection: "none" (not accepted yet), "open",
                      \* "eof" (open, the remote end has closed), "closed"
                      \* (close() has been called in this process)
    pc,               \* per handler thread: where it is
    message,          \* process_message: the line being processed
    authenticated,    \* process_message: the flag read at line 174
    reply,            \* the text the handler is about to write to its own socket
    sender_username,  \* handle_send, line 162
    recipient_socket, \* handle_send, line 165
    dc_target,        \* disconnect_client: its argument
    dc_user,          \* disconnect_client: username, line 47
    dc_ret,           \* where the caller of disconnect_client goes on
    resp,             \* history: the writes of the handler for the current line
    hello_ack,        \* history: the handle of the HELLO written to the connection
    handle_of,        \* history: the handle the handler put into clients
    nlines,           \* history: the number of lines received so far
    snap,             \* history: clients and client_sockets as they were when
                      \* the handler received the line it is processing
    interfered,       \* history: another thread has changed clients,
                      \* client_sockets or closed a socket since then
    running,          \* the global flag of the two loops (line 7)
    server_socket,    \* the listening socket: "listening" or "closed"
    main_pc,          \* the main thread: "loop" (lines 261-268), "L233",
                      \* "L236", "L238" (in cleanup), "L275" (cleanup has
                      \* returned), "exited" (main has returned)
    to_close,         \* cleanup: the sockets of list(client_sockets.keys())
                      \* still to be closed
    cleanups,         \* history: the number of runs of cleanup that returned
    input,            \* frame reader: the bytes a client sends, as a whole
    stream,           \* frame reader: the bytes not yet received
    buffer,           \* frame reader: handle_client's buffer (line 199)
    emitted,          \* frame reader: the lines handed to process_message
    frame_pc,         \* frame reader: "recv" (in the loop) or "done"
    recording,        \* the run keeps the bytes written to each socket
    wire,             \* history: the bytes each client socket has taken
    bytes_sent,       \* send_message of each handler: bytes already taken
    partials          \* number of sends that took part of the data only

mainvars == <<running, server_socket, main_pc, to_close, cleanups>>
framevars == <<input, stream, buffer, emitted, frame_pc>>
\* What no handler thread ever writes.
wirevars == <<wire, bytes_sent, partials>>
fixed == <<max_users, recording, mainvars, framevars>>

shared == <<fixed, clients, client_sockets, sock>>
locals == <<message, authenticated, reply, sender_username, recipient_socket>>
dclocals == <<dc_target, dc_user, dc_ret>>
history == <<resp, wirevars, hello_ack, handle_of, nlines, snap, interfered>>
vars == <<shared, pc, locals, dclocals, history>>

\* The server after main has bound and listens (line 259), no client yet.
InitServer ==
    /\ max_users \in 1 .. MaxCapacity
    /\ running = TRUE
    /\ server_socket = "listening"
    /\ main_pc = "loop"
    /\ to_close = <<>>
    /\ cleanups = 0
    /\ clients = <<>>
    /\ client_sockets = <<>>
    /\ sock = [c \in Conns |-> "none"]
    /\ pc = [c \in Conns |-> "free"]
    /\ message = [c \in Conns |-> <<>>]
    /\ authenticated = [c \in Conns |-> FALSE]
    /\ reply = [c \in Conns |-> <<>>]
    /\ sender_username = [c \in Conns |-> None]
    /\ recipient_socket = [c \in Conns |-> 0]
    /\ dc_target = [c \in Conns |-> 0]
    /\ dc_user = [c \in Conns |-> None]
    /\ dc_ret = [c \in Conns |-> "idle"]
    /\ resp = [c \in Conns |-> <<>>]
    /\ wire = [c \in Conns |-> <<>>]
    /\ bytes_sent = [c \in Conns |-> 0]
    /\ partials = 0
    /\ hello_ack = [c \in Conns |-> None]
    /\ handle_of = [c \in Conns |-> None]
    /\ nlines = 0
    /\ snap = [c \in Conns |-> <<>>]
    /\ interfered = [c \in Conns |-> FALSE]

Init ==
    /\ InitServer
    /\ recording = FALSE
    /\ input = <<>>
    /\ stream = <<>>
    /\ buffer = <<>>
    /\ emitted = <<>>
    /\ frame_pc = "done"


(***************************************************************************)
(* The texts the server writes.                                            *)
(***************************************************************************)
BAD_RQST_HDR == <<"BAD-RQST-HDR", "\n">>
BAD_RQST_BODY == <<"BAD-RQST-BODY", "\n">>
IN_USE == <<"IN-USE", "\n">>
BUSY == <<"BUSY", "\n">>
BAD_DEST_USER == <<"BAD-DEST-USER", "\n">>
SEND_OK == <<"SEND-OK", "\n">>
Hello(username) == <<"HELLO", " ">> \o username \o <<"\n">>
ListOk(user_list) == <<"LIST-OK", " ">> \o user_list \o <<"\n">>
Delivery(sender, body) ==
    <<"DELIVERY", " ">> \o sender \o <<" ">> \o body \o <<"\n">>

\* client_sockets.get(client_socket, (None, False))
SessionOf(s) ==
    IF Has(client_sockets, s) THEN Get(client_sockets, s) ELSE <<None, FALSE>>

\* Python's truth value of a user name: None and "" are false.
Truthy(username) == username # None /\ username # <<>>

(***************************************************************************)
(* The parts of the handlers that read only the line and the handler's     *)
(* locals.  Each gives the place the handler goes to next and, when that   *)
(* place is "reply", the text it writes there.                             *)
(***************************************************************************)
Goto(label) == [pc |-> label, reply |-> <<>>]
Answer(text) == [pc |-> "reply", reply |-> text]

\* handle_hello_from: the user name of the line
HelloUsername(parts) == Strip(parts[2])

HasIllegalChar(username) ==
    \E i \in 1 .. Len(username) : username[i] \in illegal_chars

\* Mutant: the check of line 85 left out.
HelloFromStart_NoAuthCheck(parts, auth) ==
    IF Len(parts) # 2 THEN Answer(BAD_RQST_BODY)
    ELSE IF HasIllegalChar(HelloUsername(parts)) THEN Answer(BAD_RQST_BODY)
    ELSE Goto("L102")

\* handle_hello_from, lines 85-99
HelloFromStart(parts, auth) ==
    IF auth THEN Answer(BAD_RQST_HDR)
    ELSE IF Len(parts) # 2 THEN Answer(BAD_RQST_BODY)
    ELSE IF HasIllegalChar(HelloUsername(parts)) THEN Answer(BAD_RQST_BODY)
    ELSE Goto("L102")

\* handle_list, lines 122-124
ListStart(auth) ==
    IF ~auth THEN Answer(BAD_RQST_HDR) ELSE Goto("L126")

\* handle_send: message_parts, dest_user, message
SendParts(parts) == Split1(parts[2], " ")
SendDest(parts) == SendParts(parts)[1]
SendBody(parts) == SendParts(parts)[2]

\* Mutant: a malformed SEND answered BAD-RQST-HDR.
SendStart_Hdr(parts, auth) ==
    IF ~auth THEN Answer(BAD_RQST_HDR)
    ELSE IF Len(parts) # 2 THEN Answer(BAD_RQST_HDR)
    ELSE IF Len(SendParts(parts)) # 2 THEN Answer(BAD_RQST_HDR)
    ELSE IF Strip(SendBody(parts)) = <<>> THEN Answer(BAD_RQST_HDR)
    ELSE Goto("L157")

\* handle_send, lines 135-154
SendStart(parts, auth) ==
    IF ~auth THEN Answer(BAD_RQST_HDR)
    ELSE IF Len(parts) # 2 THEN Answer(BAD_RQST_BODY)
    ELSE IF Len(SendParts(parts)) # 2 THEN Answer(BAD_RQST_BODY)
    ELSE IF Strip(SendBody(parts)) = <<>> THEN Answer(BAD_RQST_BODY)
    ELSE Goto("L157")

Parts(msg) == Split1(msg, " ")
Command(msg) == Parts(msg)[1]

\* Mutant: an unknown keyword is answered as a bad body.
Dispatch_UnknownAsBody(msg, auth) ==
    IF Command(msg) = <<"HELLO-FROM">> THEN HelloFromStart(Parts(msg), auth)
    ELSE IF Command(msg) = <<"LIST">> THEN ListStart(auth)
    ELSE IF Command(msg) = <<"SEND">> THEN SendStart(Parts(msg), auth)
    ELSE Answer(BAD_RQST_BODY)

\* Mutant: LIST with anything after the keyword is refused.
Dispatch_StrictList(msg, auth) ==
    IF Command(msg) = <<"HELLO-FROM">> THEN HelloFromStart(Parts(msg), auth)
    ELSE IF Command(msg) = <<"LIST">> /\ Len(Parts(msg)) = 1 THEN ListStart(auth)
    ELSE IF Command(msg) = <<"SEND">> THEN SendStart(Parts(msg), auth)
    ELSE Answer(BAD_RQST_HDR)

\* process_message, lines 177-191 (split never gives an empty list)
Dispatch(msg, auth) ==
    IF Command(msg) = <<"HELLO-FROM">> THEN HelloFromStart(Parts(msg), auth)
    ELSE IF Command(msg) = <<"LIST">> THEN ListStart(auth)
    ELSE IF Command(msg) = <<"SEND">> THEN SendStart(Parts(msg), auth)
    ELSE Answer(BAD_RQST_HDR)

(***************************************************************************)
(* History only: a handler is in flight while it processes a line; a step  *)
(* of thread c that changes the shared state marks the other handlers in   *)
(* flight as interfered with (their snapshot is of no use any more).       *)
(***************************************************************************)
DcLabels == {"dc47", "dc49", "dc52", "dc53", "dc55"}

InFlight(d) ==
    /\ pc[d] \notin {"free", "idle", "done", "killed"}
    /\ ~(pc[d] \in DcLabels /\ dc_ret[d] = "done")

Interfere(c) ==
    /\ interfered' = [d \in Conns |-> IF d # c /\ InFlight(d) THEN TRUE ELSE interfered[d]]
    /\ snap' = [d \in Conns |-> IF d # c /\ InFlight(d) THEN <<>> ELSE snap[d]]

(***************************************************************************)
(* send_message(t, data) called by the handler of connection c, which      *)
(* goes on at `next` when send_message returns.  The write fails when the  *)
(* socket has been closed in this process, and may fail when the remote    *)
(* end has closed; send_message then calls disconnect_client(t).           *)
(***************************************************************************)
WriteOk(c, t, data, next) ==
    /\ sock[t] \in {"open", "eof"}
    /\ resp' = [resp EXCEPT ![c] = Append(@, [to |-> t, data |-> data, ok |-> TRUE])]
    /\ wire' = IF recording
               THEN [wire EXCEPT ![t] = @ \o SubSeq(data, bytes_sent[c] + 1, Len(data))]
               ELSE wire
    /\ bytes_sent' = [bytes_sent EXCEPT ![c] = 0]
    /\ UNCHANGED partials
    /\ pc' = [pc EXCEPT ![c] = next]
    /\ UNCHANGED dclocals

WriteFail(c, t, data, next) ==
    /\ sock[t] \in {"eof", "closed"}
    /\ resp' = [resp EXCEPT ![c] = Append(@, [to |-> t, data |-> data, ok |-> FALSE])]
    /\ bytes_sent' = [bytes_sent EXCEPT ![c] = 0]
    /\ UNCHANGED <<wire, partials>>
    /\ pc' = [pc EXCEPT ![c] = "dc47"]
    /\ dc_target' = [dc_target EXCEPT ![c] = t]
    /\ dc_ret' = [dc_ret EXCEPT ![c] = next]
    /\ UNCHANGED dc_user

send_message(c, t, data, next) ==
    \/ WriteOk(c, t, data, next)
    \/ WriteFail(c, t, data, next)

\* An exception that leaves process_message: handle_client logs it, breaks
\* out of its loop and runs disconnect_client on its own socket (217-224).
Raise(c) ==
    /\ pc' = [pc EXCEPT ![c] = "dc47"]
    /\ dc_target' = [dc_target EXCEPT ![c] = c]
    /\ dc_ret' = [dc_ret EXCEPT ![c] = "done"]
    /\ UNCHANGED dc_user
    /\ resp' = [resp EXCEPT ![c] = <<>>]
    /\ UNCHANGED wirevars
    /\ snap' = [snap EXCEPT ![c] = <<>>]
    /\ interfered' = [interfered EXCEPT ![c] = FALSE]

(***************************************************************************)
(* main, lines 265-268: accept a connection, record its session, start its *)
(* handler.  Connections are numbered in the order they are accepted.  The *)
(* new thread's first test of `running` (line 202) is taken with its       *)
(* start.                                                                  *)
(***************************************************************************)
\* Mutant: the session of a new connection recorded as authenticated.
Accept_Authenticated(c) ==
    /\ main_pc = "loop"
    /\ pc[c] = "free"
    /\ \A d \in Conns : d < c => pc[d] # "free"
    /\ sock' = [sock EXCEPT ![c] = "open"]
    /\ client_sockets' = Put(client_sockets, c, <<None, TRUE>>)
    /\ pc' = [pc EXCEPT ![c] = "idle"]
    /\ Interfere(c)
    /\ UNCHANGED <<fixed, clients, locals, dclocals, resp, wirevars, hello_ack, handle_of,
                   nlines>>

\* lines 266-268
Accept(c) ==
    /\ main_pc = "loop"
    /\ pc[c] = "free"
    /\ \A d \in Conns : d < c => pc[d] # "free"
    /\ sock' = [sock EXCEPT ![c] = "open"]
    /\ client_sockets' = Put(client_sockets, c, <<None, FALSE>>)
    /\ pc' = [pc EXCEPT ![c] = "idle"]
    /\ Interfere(c)
    /\ UNCHANGED <<fixed, clients, locals, dclocals, resp, wirevars, hello_ack, handle_of,
                   nlines>>

\* The remote end closes the connection.
PeerClose(c) ==
    /\ sock[c] = "open"
    /\ sock' = [sock EXCEPT ![c] = "eof"]
    /\ UNCHANGED <<fixed, clients, client_sockets, pc, locals, dclocals, history>>

\* handle_client, lines 204-213, and process_message up to the first access
\* to the directory: a complete line has arrived (lines the remote end sent
\* before it closed are still delivered).  A line that is not valid UTF-8
\* makes decode raise at line 212, which ends the handler's loop.
Recv(c, msg, budget) ==
    /\ pc[c] = "idle"
    /\ sock[c] \in {"open", "eof"}
    /\ nlines < budget
    /\ nlines' = nlines + 1
    /\ message' = [message EXCEPT ![c] = msg]
    /\ IF Decodable(msg)
       THEN LET auth == SessionOf(c)[2]
                to == Dispatch(msg, auth)
            IN  /\ authenticated' = [authenticated EXCEPT ![c] = auth]
                /\ reply' = [reply EXCEPT ![c] = to.reply]
                /\ pc' = [pc EXCEPT ![c] = to.pc]
                /\ snap' = [snap EXCEPT ![c] = <<clients, client_sockets>>]
                /\ UNCHANGED <<dclocals, resp, wirevars, interfered>>
       ELSE /\ Raise(c)
            /\ UNCHANGED <<authenticated, reply>>
    /\ UNCHANGED <<shared, sender_username, recipient_socket, hello_ack, handle_of>>

RecvLine(c, msg) == Recv(c, msg, MaxLines)

RecvLongLine(c, msg) == Recv(c, msg, MaxLongLines)

RecvShutdownLine(c, msg) == Recv(c, msg, MaxShutdownLines)

\* handle_client, lines 204-206 and 217-224: end of stream, or recv raises
\* because the socket was closed; the handler leaves its loop.
HandlerExit(c) ==
    /\ pc[c] = "idle"
    /\ sock[c] \in {"eof", "closed"}
    /\ Raise(c)
    /\ UNCHANGED <<shared, locals, hello_ack, handle_of, nlines>>

\* send_error / send_message of a reply to the handler's own socket
Reply(c) ==
    /\ pc[c] = "reply"
    /\ send_message(c, c, reply[c], "ret")
    /\ UNCHANGED <<shared, locals, hello_ack, handle_of, nlines, snap, interfered>>

\* process_message has returned; the handler tests `running` (line 202) and
\* is back at recv, or leaves the loop for the finally of line 224.
LoopBack(c) ==
    /\ pc[c] = "ret"
    /\ message' = [message EXCEPT ![c] = <<>>]
    /\ authenticated' = [authenticated EXCEPT ![c] = FALSE]
    /\ reply' = [reply EXCEPT ![c] = <<>>]
    /\ sender_username' = [sender_username EXCEPT ![c] = None]
    /\ recipient_socket' = [recipient_socket EXCEPT ![c] = 0]
    /\ IF running
       THEN /\ pc' = [pc EXCEPT ![c] = "idle"]
            /\ resp' = [resp EXCEPT ![c] = <<>>]
            /\ snap' = [snap EXCEPT ![c] = <<>>]
            /\ interfered' = [interfered EXCEPT ![c] = FALSE]
            /\ UNCHANGED <<dclocals, wirevars>>
       ELSE Raise(c)
    /\ UNCHANGED <<shared, hello_ack, handle_of, nlines>>

(***************************************************************************)
(* handle_hello_from, lines 101-115                                        *)
(***************************************************************************)
username(c) == HelloUsername(Parts(message[c]))

\* Mutant: a handle that is in use is taken away from its holder.
HelloInUse_Evict(c) ==
    /\ pc[c] = "L102"
    /\ IF Has(clients, username(c))
       THEN /\ pc' = [pc EXCEPT ![c] = "reply"]
            /\ reply' = [reply EXCEPT ![c] = IN_USE]
            /\ clients' = Del(clients, username(c))
       ELSE /\ pc' = [pc EXCEPT ![c] = "L107"]
            /\ UNCHANGED <<reply, clients>>
    /\ UNCHANGED <<fixed, client_sockets, sock, message, authenticated,
                   sender_username, recipient_socket, dclocals, history>>

\* line 102: if username in clients
HelloInUse(c) ==
    /\ pc[c] = "L102"
    /\ IF Has(clients, username(c))
       THEN /\ pc' = [pc EXCEPT ![c] = "reply"]
            /\ reply' = [reply EXCEPT ![c] = IN_USE]
       ELSE /\ pc' = [pc EXCEPT ![c] = "L107"]
            /\ UNCHANGED reply
    /\ UNCHANGED <<shared, message, authenticated, sender_username,
                   recipient_socket, dclocals, history>>

\* Mutant: > in the place of >=.
HelloFull_OffByOne(c) ==
    /\ pc[c] = "L107"
    /\ IF Len(clients) > max_users
       THEN /\ pc' = [pc EXCEPT ![c] = "reply"]
            /\ reply' = [reply EXCEPT ![c] = BUSY]
       ELSE /\ pc' = [pc EXCEPT ![c] = "L112"]
            /\ UNCHANGED reply
    /\ UNCHANGED <<shared, message, authenticated, sender_username,
                   recipient_socket, dclocals, history>>

\* line 107: if len(clients) >= max_users
HelloFull(c) ==
    /\ pc[c] = "L107"
    /\ IF Len(clients) >= max_users
       THEN /\ pc' = [pc EXCEPT ![c] = "reply"]
            /\ reply' = [reply EXCEPT ![c] = BUSY]
       ELSE /\ pc' = [pc EXCEPT ![c] = "L112"]
            /\ UNCHANGED reply
    /\ UNCHANGED <<shared, message, authenticated, sender_username,
                   recipient_socket, dclocals, history>>

\* line 112: clients[username] = client_socket
HelloInsert(c) ==
    /\ pc[c] = "L112"
    /\ clients' = Put(clients, username(c), c)
    /\ handle_of' = [handle_of EXCEPT ![c] = username(c)]
    /\ pc' = [pc EXCEPT ![c] = "L113"]
    /\ Interfere(c)
    /\ UNCHANGED <<fixed, client_sockets, sock, locals, dclocals, resp, wirevars, hello_ack,
                   nlines>>

\* Mutant: the session is recorded as not authenticated.
HelloSession_NotAuthenticated(c) ==
    /\ pc[c] = "L113"
    /\ client_sockets' = Put(client_sockets, c, <<username(c), FALSE>>)
    /\ pc' = [pc EXCEPT ![c] = "L114"]
    /\ Interfere(c)
    /\ UNCHANGED <<fixed, clients, sock, locals, dclocals, resp, wirevars, hello_ack,
                   handle_of, nlines>>

\* line 113: client_sockets[client_socket] = (username, True)
HelloSession(c) ==
    /\ pc[c] = "L113"
    /\ client_sockets' = Put(client_sockets, c, <<username(c), TRUE>>)
    /\ pc' = [pc EXCEPT ![c] = "L114"]
    /\ Interfere(c)
    /\ UNCHANGED <<fixed, clients, sock, locals, dclocals, resp, wirevars, hello_ack,
                   handle_of, nlines>>

\* line 114: send_message(client_socket, f"HELLO {username}\n")
HelloReply(c) ==
    /\ pc[c] = "L114"
    /\ \/ /\ WriteOk(c, c, Hello(username(c)), "ret")
          /\ hello_ack' = [hello_ack EXCEPT ![c] = username(c)]
       \/ /\ WriteFail(c, c, Hello(username(c)), "ret")
          /\ UNCHANGED hello_ack
    /\ UNCHANGED <<shared, locals, handle_of, nlines, snap, interfered>>

(***************************************************************************)
(* handle_list, lines 126-127                                              *)
(***************************************************************************)
\* line 126: user_list = ",".join(clients.keys())
ListRead(c) ==
    /\ pc[c] = "L126"
    /\ reply' = [reply EXCEPT ![c] = ListOk(Join(Keys(clients)))]
    /\ pc' = [pc EXCEPT ![c] = "reply"]
    /\ UNCHANGED <<shared, message, authenticated, sender_username,
                   recipient_socket, dclocals, history>>

(***************************************************************************)
(* handle_send, lines 156-169                                              *)
(***************************************************************************)
dest_user(c) == SendDest(Parts(message[c]))

\* Mutant: a destination that is not there is answered SEND-OK.
SendCheckDest_Silent(c) ==
    /\ pc[c] = "L157"
    /\ IF ~Has(clients, dest_user(c))
       THEN /\ pc' = [pc EXCEPT ![c] = "reply"]
            /\ reply' = [reply EXCEPT ![c] = SEND_OK]
       ELSE /\ pc' = [pc EXCEPT ![c] = "L162"]
            /\ UNCHANGED reply
    /\ UNCHANGED <<shared, message, authenticated, sender_username,
                   recipient_socket, dclocals, history>>

\* line 157: if dest_user not in clients
SendCheckDest(c) ==
    /\ pc[c] = "L157"
    /\ IF ~Has(clients, dest_user(c))
       THEN /\ pc' = [pc EXCEPT ![c] = "reply"]
            /\ reply' = [reply EXCEPT ![c] = BAD_DEST_USER]
       ELSE /\ pc' = [pc EXCEPT ![c] = "L162"]
            /\ UNCHANGED reply
    /\ UNCHANGED <<shared, message, authenticated, sender_username,
                   recipient_socket, dclocals, history>>

\* line 162: sender_username, _ = client_sockets[client_socket]
SendGetSender(c) ==
    /\ pc[c] = "L162"
    /\ IF Has(client_sockets, c)
       THEN /\ sender_username' = [sender_username EXCEPT ![c] = Get(client_sockets, c)[1]]
            /\ pc' = [pc EXCEPT ![c] = "L165"]
            /\ UNCHANGED dclocals
            /\ UNCHANGED <<resp, wirevars, snap, interfered>>
       ELSE /\ Raise(c)
            /\ UNCHANGED sender_username
    /\ UNCHANGED <<shared, message, authenticated, reply, recipient_socket, hello_ack,
                   handle_of, nlines>>

\* line 165: recipient_socket = clients[dest_user]
SendGetRecipient(c) ==
    /\ pc[c] = "L165"
    /\ IF Has(clients, dest_user(c))
       THEN /\ recipient_socket' = [recipient_socket EXCEPT ![c] = Get(clients, dest_user(c))]
            /\ pc' = [pc EXCEPT ![c] = "L166"]
            /\ UNCHANGED dclocals
            /\ UNCHANGED <<resp, wirevars, snap, interfered>>
       ELSE /\ Raise(c)
            /\ UNCHANGED recipient_socket
    /\ UNCHANGED <<shared, message, authenticated, reply, sender_username, hello_ack,
                   handle_of, nlines>>

\* Mutant: the DELIVERY line names the destination, not the sender.
SendDeliver_WrongName(c) ==
    /\ pc[c] = "L166"
    /\ send_message(c, recipient_socket[c],
                    Delivery(dest_user(c), SendBody(Parts(message[c]))), "L169")
    /\ UNCHANGED <<shared, locals, hello_ack, handle_of, nlines, snap, interfered>>

\* line 166: send_message(recipient_socket, f"DELIVERY {sender_username} {message}\n")
SendDeliver(c) ==
    /\ pc[c] = "L166"
    /\ send_message(c, recipient_socket[c],
                    Delivery(sender_username[c], SendBody(Parts(message[c]))), "L169")
    /\ UNCHANGED <<shared, locals, hello_ack, handle_of, nlines, snap, interfered>>

\* line 169: send_message(client_socket, "SEND-OK\n")
SendConfirm(c) ==
    /\ pc[c] = "L169"
    /\ send_message(c, c, SEND_OK, "ret")
    /\ UNCHANGED <<shared, locals, hello_ack, handle_of, nlines, snap, interfered>>

(***************************************************************************)
(* disconnect_client(dc_target[c]) run by the handler of connection c,     *)
(* lines 46-57.  An exception (a KeyError of del) is caught at line 56 and *)
(* ends the function without the statements after it.                      *)
(***************************************************************************)
DcReturn(c) ==
    /\ pc' = [pc EXCEPT ![c] = dc_ret[c]]
    /\ dc_target' = [dc_target EXCEPT ![c] = 0]
    /\ dc_user' = [dc_user EXCEPT ![c] = None]
    /\ dc_ret' = [dc_ret EXCEPT ![c] = "idle"]

\* line 47: username, _ = client_sockets.get(client_socket, (None, False))
Dc47(c) ==
    /\ pc[c] = "dc47"
    /\ LET u == SessionOf(dc_target[c])[1]
       IN  /\ dc_user' = [dc_user EXCEPT ![c] = u]
           /\ pc' = [pc EXCEPT ![c] = IF Truthy(u) THEN "dc49" ELSE "dc52"]
    /\ UNCHANGED <<shared, locals, dc_target, dc_ret, history>>

\* line 49: del clients[username]
Dc49(c) ==
    /\ pc[c] = "dc49"
    /\ IF Has(clients, dc_user[c])
       THEN /\ clients' = Del(clients, dc_user[c])
            /\ pc' = [pc EXCEPT ![c] = "dc52"]
            /\ Interfere(c)
            /\ UNCHANGED dclocals
       ELSE /\ DcReturn(c)
            /\ UNCHANGED <<clients, interfered, snap>>
    /\ UNCHANGED <<fixed, client_sockets, sock, locals, resp, wirevars, hello_ack, handle_of,
                   nlines>>

\* line 52: if client_socket in client_sockets
Dc52(c) ==
    /\ pc[c] = "dc52"
    /\ pc' = [pc EXCEPT ![c] =
                IF Has(client_sockets, dc_target[c]) THEN "dc53" ELSE "dc55"]
    /\ UNCHANGED <<shared, locals, dclocals, history>>

\* line 53: del client_sockets[client_socket]
Dc53(c) ==
    /\ pc[c] = "dc53"
    /\ IF Has(client_sockets, dc_target[c])
       THEN /\ client_sockets' = Del(client_sockets, dc_target[c])
            /\ pc' = [pc EXCEPT ![c] = "dc55"]
            /\ Interfere(c)
            /\ UNCHANGED dclocals
       ELSE /\ DcReturn(c)
            /\ UNCHANGED <<client_sockets, interfered, snap>>
    /\ UNCHANGED <<fixed, clients, sock, locals, resp, wirevars, hello_ack, handle_of,
                   nlines>>

\* line 55: client_socket.close()
Dc55(c) ==
    /\ pc[c] = "dc55"
    /\ sock' = [sock EXCEPT ![dc_target[c]] = "closed"]
    /\ DcReturn(c)
    /\ Interfere(c)
    /\ UNCHANGED <<fixed, clients, client_sockets, locals, resp, wirevars, hello_ack,
                   handle_of, nlines>>

Next ==
    \E c \in Conns :
        \/ Accept(c)
        \/ PeerClose(c)
        \/ \E msg \in Lines : RecvLine(c, msg)
        \/ HandlerExit(c)
        \/ Reply(c)
        \/ LoopBack(c)
        \/ HelloInUse(c)
        \/ HelloFull(c)
        \/ HelloInsert(c)
        \/ HelloSession(c)
        \/ HelloReply(c)
        \/ ListRead(c)
        \/ SendCheckDest(c)
        \/ SendGetSender(c)
        \/ SendGetRecipient(c)
        \/ SendDeliver(c)
        \/ SendConfirm(c)
        \/ Dc47(c)
        \/ Dc49(c)
        \/ Dc52(c)
        \/ Dc53(c)
        \/ Dc55(c)

Spec == Init /\ [][Next]_vars

\* The same server, fed with the lines of LongLines.
NextLong ==
    \E c \in Conns :
        \/ Accept(c)
        \/ PeerClose(c)
        \/ \E msg \in LongLines : RecvLongLine(c, msg)
        \/ HandlerExit(c)
        \/ Reply(c)
        \/ LoopBack(c)
        \/ HelloInUse(c)
        \/ HelloFull(c)
        \/ HelloInsert(c)
        \/ HelloSession(c)
        \/ HelloReply(c)
        \/ ListRead(c)
        \/ SendCheckDest(c)
        \/ SendGetSender(c)
        \/ SendGetRecipient(c)
        \/ SendDeliver(c)
        \/ SendConfirm(c)
        \/ Dc47(c)
        \/ Dc49(c)
        \/ Dc52(c)
        \/ Dc53(c)
        \/ Dc55(c)

SpecLong == Init /\ [][NextLong]_vars

(***************************************************************************)
(* send_message, lines 67-68, byte by byte: socket.send may take only a    *)
(* part of the data, and the loop sends the rest with another call.  The   *)
(* runs of SpecWire keep what each socket has taken in wire.               *)
(***************************************************************************)
WireLines ==
    { <<"HELLO-FROM", " ", "a">>,
      <<"HELLO-FROM", " ", "b">>,
      <<"SEND", " ", "a", " ", "hi">> }

InitWire ==
    /\ InitServer
    /\ recording = TRUE
    /\ input = <<>>
    /\ stream = <<>>
    /\ buffer = <<>>
    /\ emitted = <<>>
    /\ frame_pc = "done"

RecvWireLine(c, msg) == Recv(c, msg, MaxWireLines)

\* The send_message call the handler of c is in: its socket and its data.
Sending(c) ==
    IF pc[c] = "reply" THEN [to |-> c, data |-> reply[c]]
    ELSE IF pc[c] = "L114" THEN [to |-> c, data |-> Hello(username(c))]
    ELSE IF pc[c] = "L166"
    THEN [to |-> recipient_socket[c],
          data |-> Delivery(sender_username[c], SendBody(Parts(message[c])))]
    ELSE [to |-> c, data |-> SEND_OK]

\* line 68: send takes k bytes, fewer than what is left
SendPart(c) ==
    /\ pc[c] \in {"reply", "L114", "L166", "L169"}
    /\ partials < MaxPartial
    /\ sock[Sending(c).to] \in {"open", "eof"}
    /\ \E k \in 1 .. (Len(Sending(c).data) - bytes_sent[c] - 1) :
          /\ wire' = [wire EXCEPT ![Sending(c).to] =
                         @ \o SubSeq(Sending(c).data, bytes_sent[c] + 1,
                                     bytes_sent[c] + k)]
          /\ bytes_sent' = [bytes_sent EXCEPT ![c] = @ + k]
    /\ partials' = partials + 1
    /\ UNCHANGED <<shared, pc, locals, dclocals, resp, hello_ack, handle_of,
                   nlines, snap, interfered>>

NextWire ==
    \E c \in Conns :
        \/ Accept(c)
        \/ PeerClose(c)
        \/ \E msg \in WireLines : RecvWireLine(c, msg)
        \/ HandlerExit(c)
        \/ Reply(c)
        \/ SendPart(c)
        \/ LoopBack(c)
        \/ HelloInUse(c)
        \/ HelloFull(c)
        \/ HelloInsert(c)
        \/ HelloSession(c)
        \/ HelloReply(c)
        \/ SendCheckDest(c)
        \/ SendGetSender(c)
        \/ SendGetRecipient(c)
        \/ SendDeliver(c)
        \/ SendConfirm(c)
        \/ Dc47(c)
        \/ Dc49(c)
        \/ Dc52(c)
        \/ Dc53(c)
        \/ Dc55(c)

SpecWire == InitWire /\ [][NextWire]_vars

(***************************************************************************)
(* The frame reader of handle_client, lines 199-213, on its own: one       *)
(* connection's byte stream, read one byte at a time, cut into lines that  *)
(* are decoded and handed to process_message (recorded in emitted).        *)
(***************************************************************************)
StreamBytes == {"x", "\n", InvalidByte}

RECURSIVE StreamsOfLen(_)
StreamsOfLen(n) ==
    IF n = 0 THEN {<<>>}
    ELSE {Append(t, b) : t \in StreamsOfLen(n - 1), b \in StreamBytes}

Streams == UNION {StreamsOfLen(n) : n \in 0 .. MaxStream}

InitFrames ==
    /\ InitServer
    /\ recording = FALSE
    /\ input \in Streams
    /\ stream = input
    /\ buffer = <<>>
    /\ emitted = <<>>
    /\ frame_pc = "recv"

\* lines 210-213: while b'\n' in buffer: split, decode, process_message
RECURSIVE FrameLoop(_, _)
FrameLoop(buf, out) ==
    IF FirstIndex(buf, "\n") = 0
    THEN [buffer |-> buf, emitted |-> out, raised |-> FALSE]
    ELSE LET parts == Split1(buf, "\n")
         IN  IF Decodable(parts[1])
             THEN FrameLoop(parts[2], Append(out, parts[1]))
             ELSE [buffer |-> parts[2], emitted |-> out, raised |-> TRUE]

\* lines 204-213 (and 217-219 when decode raises): one byte is received
FrameRecv ==
    /\ frame_pc = "recv"
    /\ stream # <<>>
    /\ LET r == FrameLoop(Append(buffer, Head(stream)), emitted)
       IN  /\ buffer' = r.buffer
           /\ emitted' = r.emitted
           /\ frame_pc' = IF r.raised THEN "done" ELSE "recv"
    /\ stream' = Tail(stream)
    /\ UNCHANGED <<max_users, recording, mainvars, input, clients, client_sockets, sock, pc,
                   locals, dclocals, history>>

\* lines 204-206: recv returns b'' at the end of the stream
FrameEof ==
    /\ frame_pc = "recv"
    /\ stream = <<>>
    /\ frame_pc' = "done"
    /\ UNCHANGED <<max_users, recording, mainvars, input, stream, buffer, emitted, clients,
                   client_sockets, sock, pc, locals, dclocals, history>>

NextFrames ==
    \/ FrameRecv
    \/ FrameEof

SpecFrames == InitFrames /\ [][NextFrames]_vars

(***************************************************************************)
(* The main thread, lines 261-275, and cleanup, lines 233-240.             *)
(***************************************************************************)
\* line 262 or 265: select or accept raises; control goes to line 272
AcceptFail ==
    /\ main_pc = "loop"
    /\ main_pc' = "L272"
    /\ UNCHANGED <<max_users, recording, running, server_socket, to_close, cleanups, framevars,
                   clients, client_sockets, sock, pc, locals, dclocals, history>>

\* KeyboardInterrupt in the loop; control goes to line 270
Interrupt ==
    /\ main_pc = "loop"
    /\ main_pc' = "L270"
    /\ UNCHANGED <<max_users, recording, running, server_socket, to_close, cleanups, framevars,
                   clients, client_sockets, sock, pc, locals, dclocals, history>>

\* lines 270-275: either except clause logs and falls into the finally
MainFinally ==
    /\ main_pc \in {"L270", "L272"}
    /\ main_pc' = "L233"
    /\ UNCHANGED <<max_users, recording, running, server_socket, to_close, cleanups, framevars,
                   clients, client_sockets, sock, pc, locals, dclocals, history>>

\* cleanup, lines 233-235
CleanupStart ==
    /\ main_pc = "L233"
    /\ running' = FALSE
    /\ server_socket' = "closed"
    /\ main_pc' = "L236"
    /\ UNCHANGED <<max_users, recording, to_close, cleanups, framevars,
                   clients, client_sockets, sock, pc, locals, dclocals, history>>

\* cleanup, line 236: list(client_sockets.keys())
CleanupList ==
    /\ main_pc = "L236"
    /\ to_close' = Keys(client_sockets)
    /\ main_pc' = "L238"
    /\ UNCHANGED <<max_users, recording, running, server_socket, cleanups, framevars,
                   clients, client_sockets, sock, pc, locals, dclocals, history>>

\* cleanup, lines 236-240: close the next socket of the list, or return
CleanupClose ==
    /\ main_pc = "L238"
    /\ IF to_close = <<>>
       THEN /\ main_pc' = "L275"
            /\ cleanups' = cleanups + 1
            /\ UNCHANGED <<to_close, sock, interfered, snap>>
       ELSE /\ sock' = [sock EXCEPT ![Head(to_close)] = "closed"]
            /\ to_close' = Tail(to_close)
            /\ Interfere(0)
            /\ UNCHANGED <<main_pc, cleanups>>
    /\ UNCHANGED <<max_users, recording, running, server_socket, framevars, clients,
                   client_sockets, pc, locals, dclocals, resp, wirevars, hello_ack, handle_of,
                   nlines>>

\* cleanup is called once more (main itself calls it once, at line 275)
CleanupAgain ==
    /\ main_pc = "L275"
    /\ cleanups < MaxCleanups
    /\ main_pc' = "L233"
    /\ UNCHANGED <<max_users, recording, running, server_socket, to_close, cleanups, framevars,
                   clients, client_sockets, sock, pc, locals, dclocals, history>>

\* main returns (lines 275, 279) and the process ends: the handler threads
\* are daemon threads (line 268) and end with it, wherever they are.
MainReturn ==
    /\ main_pc = "L275"
    /\ main_pc' = "exited"
    /\ pc' = [c \in Conns |-> IF pc[c] \in {"free", "done"} THEN pc[c] ELSE "killed"]
    /\ UNCHANGED <<max_users, recording, running, server_socket, to_close, cleanups, framevars,
                   clients, client_sockets, sock, locals, dclocals, history>>

\* The server with its shutdown, fed with the lines of ShutdownLines.
NextShutdown ==
    \/ AcceptFail
    \/ Interrupt
    \/ MainFinally
    \/ CleanupStart
    \/ CleanupList
    \/ CleanupClose
    \/ CleanupAgain
    \/ MainReturn
    \/ \E c \in Conns :
        \/ Accept(c)
        \/ PeerClose(c)
        \/ \E msg \in ShutdownLines : RecvShutdownLine(c, msg)
        \/ HandlerExit(c)
        \/ Reply(c)
        \/ LoopBack(c)
        \/ HelloInUse(c)
        \/ HelloFull(c)
        \/ HelloInsert(c)
        \/ HelloSession(c)
        \/ HelloReply(c)
        \/ ListRead(c)
        \/ SendCheckDest(c)
        \/ SendGetSender(c)
        \/ SendGetRecipient(c)
        \/ SendDeliver(c)
        \/ SendConfirm(c)
        \/ Dc47(c)
        \/ Dc49(c)
        \/ Dc52(c)
        \/ Dc53(c)
        \/ Dc55(c)

SpecShutdown == Init /\ [][NextShutdown]_vars

(***************************************************************************)
(* Vocabulary of the properties.                                           *)
(***************************************************************************)
IsHello(msg) == Command(msg) = <<"HELLO-FROM">>
IsList(msg) == Command(msg) = <<"LIST">>
IsSend(msg) == Command(msg) = <<"SEND">>

\* A handle as the protocol wants it: one non-empty token with none of the
\* characters ! @ # $ % ^ & * , and no white space.
WellFormedHandle(h) ==
    /\ h # <<>>
    /\ h # None
    /\ \A i \in 1 .. Len(h) : h[i] \notin (illegal_chars \cup Whitespace)

\* A HELLO-FROM line that carries a well-formed handle.
WellFormedHello(msg) ==
    /\ IsHello(msg)
    /\ Len(Parts(msg)) = 2
    /\ WellFormedHandle(Parts(msg)[2])

\* A SEND line with a destination and a body that is not blank.
WellFormedSend(msg) ==
    /\ IsSend(msg)
    /\ Len(Parts(msg)) = 2
    /\ Len(Split1(Parts(msg)[2], " ")) = 2
    /\ \E i \in 1 .. Len(Split1(Parts(msg)[2], " ")[2]) :
          Split1(Parts(msg)[2], " ")[2][i] \notin Whitespace

\* The handler of c has finished the line message[c]: process_message has
\* returned and resp[c] holds what it wrote.
Answered(c) == pc[c] = "ret"

\* Exactly one line was written for the current line of c, to c itself.
OneAnswer(c, text) ==
    /\ Len(resp[c]) = 1
    /\ resp[c][1].to = c
    /\ resp[c][1].data = text

\* clients and client_sockets are as they were when c received its line.
DictsUnchanged(c) ==
    /\ clients = snap[c][1]
    /\ client_sockets = snap[c][2]

(***************************************************************************)
(* C1.  Of several connections that ask for the same well-formed handle h  *)
(* while none of them disconnects, exactly one is answered HELLO h: no two *)
(* open connections have both been answered HELLO with the same handle.    *)
(***************************************************************************)
C1_OneHelloPerHandle ==
    \A c1, c2 \in Conns :
        (/\ c1 # c2
         /\ sock[c1] = "open"
         /\ sock[c2] = "open"
         /\ WellFormedHandle(hello_ack[c1]))
            => hello_ack[c2] # hello_ack[c1]

(***************************************************************************)
(* C2.  The directory never holds more than max_users entries.             *)
(***************************************************************************)
C2_WithinCapacity == Len(clients) <= max_users

\* The case C3 is about, for the handler of connection c.
C3_Case(c) ==
    /\ Answered(c)
    /\ WellFormedHello(message[c])
    /\ ~authenticated[c]
    /\ ~interfered[c]
    /\ Len(snap[c][1]) >= max_users
    /\ ~Has(snap[c][1], username(c))

(***************************************************************************)
(* C3.  A well-formed HELLO-FROM h of an unauthenticated connection,       *)
(* received when the directory holds max_users entries or more and h is    *)
(* not among them, and processed while no other thread changes the         *)
(* directory, is answered BUSY and nothing else; when that line is written *)
(* the directory and the sessions are as before and the socket has not     *)
(* been closed.                                                            *)
(***************************************************************************)
C3_BusyAtCapacity ==
    \A c \in Conns :
        C3_Case(c) =>
            /\ OneAnswer(c, BUSY)
            /\ resp[c][1].ok => (DictsUnchanged(c) /\ sock[c] # "closed")

C3_Witness ==
    \E c \in Conns : C3_Case(c) /\ resp[c][1].ok /\ sock[c] = "open"

(***************************************************************************)
(* C4.  The handles of a LIST-OK answer are exactly the handles of the     *)
(* connections that are open and authenticated, whenever every other       *)
(* connection is settled: its handler waits for input on an open socket,   *)
(* or has finished after a disconnect.                                     *)
(***************************************************************************)
\* The comma-separated fields of a text.
RECURSIVE Fields(_)
Fields(s) ==
    LET i == FirstIndex(s, ",")
    IN  IF i = 0 THEN {s}
        ELSE {SubSeq(s, 1, i - 1)} \cup Fields(SubSeq(s, i + 1, Len(s)))

\* The handles a client reads in "LIST-OK <h1,h2,...>\n": the fields of
\* what stands between "LIST-OK " and the end of the line.
HandlesIn(text) == Fields(SubSeq(text, 3, Len(text) - 1))

Settled(d) ==
    \/ pc[d] = "free"
    \/ pc[d] = "idle" /\ sock[d] = "open"
    \/ pc[d] = "done" /\ sock[d] = "closed"

OpenAuthenticated ==
    {SessionOf(d)[1] : d \in {e \in Conns : sock[e] = "open" /\ SessionOf(e)[2]}}

C4_ListMatchesSessions ==
    \A c \in Conns :
        (/\ pc[c] = "reply"
         /\ IsList(message[c])
         /\ authenticated[c]
         /\ ~interfered[c]
         /\ sock[c] = "open"
         /\ \A d \in Conns \ {c} : Settled(d))
            => HandlesIn(reply[c]) = OpenAuthenticated

\* The case C5 is about, for the handler of connection c.
C5_Case(c) ==
    /\ Answered(c)
    /\ WellFormedSend(message[c])
    /\ authenticated[c]
    /\ ~interfered[c]
    /\ Has(snap[c][1], dest_user(c))

(***************************************************************************)
(* C5.  A SEND dest msg of an authenticated sender, with msg not blank and *)
(* dest in the directory when the line is received, processed while no     *)
(* other thread changes the directory, makes exactly two writes, in this   *)
(* order: DELIVERY s msg to the connection the directory holds for dest,   *)
(* where s is the handle of the HELLO the sender was answered and msg is   *)
(* the body as received, then SEND-OK to the sender.  A write to a         *)
(* connection whose remote end is still there succeeds.                    *)
(***************************************************************************)
C5_SendDelivers ==
    \A c \in Conns :
        C5_Case(c) =>
            LET r == Get(snap[c][1], dest_user(c))
                body == Split1(Parts(message[c])[2], " ")[2]
            IN  /\ Len(resp[c]) = 2
                /\ resp[c][1].to = r
                /\ handle_of[r] = dest_user(c)
                /\ hello_ack[c] # None
                /\ resp[c][1].data = Delivery(hello_ack[c], body)
                /\ sock[r] = "open" => resp[c][1].ok
                /\ resp[c][2].to = c
                /\ resp[c][2].data = SEND_OK
                /\ sock[c] = "open" => resp[c][2].ok

C5_Witness ==
    \E c \in Conns :
        /\ C5_Case(c)
        /\ resp[c][1].to # c
        /\ resp[c][1].ok
        /\ resp[c][2].ok
        /\ hello_ack[c] = <<"a">>
        /\ resp[c][1].data = <<"DELIVERY", " ", "a", " ", "hi", " ", "x", "\n">>

\* The case C6 is about, for the handler of connection c.
C6_Case(c) ==
    /\ Answered(c)
    /\ WellFormedSend(message[c])
    /\ authenticated[c]
    /\ ~interfered[c]
    /\ ~Has(snap[c][1], dest_user(c))

(***************************************************************************)
(* C6.  A well-formed SEND dest msg of an authenticated sender, with dest  *)
(* not in the directory when the line is received, processed while no      *)
(* other thread changes the directory, is answered BAD-DEST-USER and       *)
(* nothing else is written (no DELIVERY to anyone); when that line is      *)
(* written the directory and the sessions are as before and the sender's   *)
(* socket has not been closed.                                             *)
(***************************************************************************)
C6_BadDestUser ==
    \A c \in Conns :
        C6_Case(c) =>
            /\ OneAnswer(c, BAD_DEST_USER)
            /\ resp[c][1].ok => (DictsUnchanged(c) /\ sock[c] # "closed")

C6_Witness ==
    \E c \in Conns : C6_Case(c) /\ resp[c][1].ok /\ Len(clients) = 1

\* The case C7 is about, for the handler of connection c.
C7_Case(c) ==
    /\ Answered(c)
    /\ \/ ~authenticated[c] /\ ~IsHello(message[c])
       \/ authenticated[c] /\ IsHello(message[c])

(***************************************************************************)
(* C7.  On an unauthenticated connection every line whose keyword is not   *)
(* HELLO-FROM, and on an authenticated connection every HELLO-FROM line,   *)
(* is answered BAD-RQST-HDR and nothing else; when that line is written    *)
(* and no other thread has changed them, the directory and the sessions    *)
(* are as before.                                                          *)
(***************************************************************************)
C7_WrongState ==
    \A c \in Conns :
        C7_Case(c) =>
            /\ OneAnswer(c, BAD_RQST_HDR)
            /\ (resp[c][1].ok /\ ~interfered[c]) => DictsUnchanged(c)

\* Both halves at once: an authenticated connection answered for a
\* HELLO-FROM, an unauthenticated one answered for a well-formed SEND.
C7_Witness ==
    \E c, d \in Conns :
        /\ C7_Case(c) /\ authenticated[c] /\ WellFormedHello(message[c])
        /\ resp[c][1].ok /\ ~interfered[c]
        /\ C7_Case(d) /\ ~authenticated[d] /\ WellFormedSend(message[d])
        /\ resp[d][1].ok

\* The case C8 is about, for the handler of connection c.
C8_Case(c) ==
    /\ Answered(c)
    /\ WellFormedHello(message[c])
    /\ ~authenticated[c]
    /\ ~interfered[c]
    /\ Len(snap[c][1]) < max_users
    /\ ~Has(snap[c][1], username(c))

(***************************************************************************)
(* C8.  A well-formed HELLO-FROM h of an unauthenticated connection c,     *)
(* received when h is not in the directory and the directory holds fewer   *)
(* than max_users entries, processed while no other thread changes the     *)
(* directory or the sessions, is answered HELLO h and nothing else; when   *)
(* that line is written the directory is the one before plus the entry     *)
(* h -> c, and the sessions are the ones before with that of c set to      *)
(* (h, authenticated).                                                     *)
(***************************************************************************)
C8_HelloRegisters ==
    \A c \in Conns :
        C8_Case(c) =>
            /\ OneAnswer(c, Hello(Parts(message[c])[2]))
            /\ resp[c][1].ok =>
                  /\ clients = Append(snap[c][1], <<Parts(message[c])[2], c>>)
                  /\ Has(snap[c][2], c)
                  /\ client_sockets =
                        [i \in 1 .. Len(snap[c][2]) |->
                            IF snap[c][2][i][1] = c
                            THEN <<c, <<Parts(message[c])[2], TRUE>>>>
                            ELSE snap[c][2][i]]

C8_Witness ==
    \E c \in Conns : C8_Case(c) /\ resp[c][1].ok /\ Len(snap[c][1]) = 1

\* A HELLO-FROM line whose remainder is not one handle: no remainder, an
\* empty one, or one that (leading and trailing blanks aside) holds a space
\* or another character of illegal_chars.
MalformedHello(msg) ==
    /\ IsHello(msg)
    /\ \/ Len(Parts(msg)) # 2
       \/ Parts(msg)[2] = <<>>
       \/ \E i \in 1 .. Len(Strip(Parts(msg)[2])) :
              Strip(Parts(msg)[2])[i] \in illegal_chars

(***************************************************************************)
(* C9.  A HELLO-FROM line of an unauthenticated connection whose remainder *)
(* is absent, empty or holds an embedded space, or whose handle holds one  *)
(* of ! @ # $ % ^ & * , is answered BAD-RQST-BODY and nothing else, and    *)
(* its handler neither puts an entry into the directory nor authenticates  *)
(* the session.                                                            *)
(***************************************************************************)
C9_MalformedHello ==
    \A c \in Conns :
        (Answered(c) /\ ~authenticated[c] /\ MalformedHello(message[c])) =>
            /\ OneAnswer(c, BAD_RQST_BODY)
            /\ handle_of[c] = None
            /\ ~SessionOf(c)[2]

\* The case C10 is about, for the handler of connection c.
C10_Case(c) ==
    /\ Answered(c)
    /\ authenticated[c]
    /\ IsSend(message[c])
    /\ ~WellFormedSend(message[c])

(***************************************************************************)
(* C10.  A SEND line of an authenticated sender whose body is missing or   *)
(* blank is answered BAD-RQST-BODY and nothing else is written (no         *)
(* DELIVERY to anyone), whether or not the destination is in the           *)
(* directory.                                                              *)
(***************************************************************************)
C10_BlankBody ==
    \A c \in Conns : C10_Case(c) => OneAnswer(c, BAD_RQST_BODY)

\* The body is there and blank, and the destination is in the directory.
C10_Witness ==
    \E c \in Conns :
        /\ C10_Case(c)
        /\ Len(Parts(message[c])) = 2
        /\ Len(Split1(Parts(message[c])[2], " ")) = 2
        /\ Has(clients, Split1(Parts(message[c])[2], " ")[1])
        /\ resp[c][1].ok

(***************************************************************************)
(* C11.  Every session record is either (no handle, not authenticated) or  *)
(* (a handle, authenticated): no record is authenticated without a handle  *)
(* and none carries a handle without being authenticated.                  *)
(***************************************************************************)
C11_SessionShape ==
    \A i \in 1 .. Len(client_sockets) :
        client_sockets[i][2] = <<None, FALSE>>
        \/ (client_sockets[i][2][1] # None /\ client_sockets[i][2][2] = TRUE)

\* Both kinds of record side by side.
C11_Witness ==
    \E c, d \in Conns :
        /\ Has(client_sockets, c) /\ Get(client_sockets, c) = <<None, FALSE>>
        /\ Has(client_sockets, d) /\ Get(client_sockets, d) = <<<<"a">>, TRUE>>

(***************************************************************************)
(* C12.  In every state, the states between the steps of HELLO-FROM and of *)
(* disconnect included, every directory entry h -> c has a session record  *)
(* of c, and the handle of that record is h.                               *)
(***************************************************************************)
C12_EntryMatchesSession ==
    \A i \in 1 .. Len(clients) :
        /\ Has(client_sockets, clients[i][2])
        /\ Get(client_sockets, clients[i][2])[1] = clients[i][1]

(***************************************************************************)
(* C13.  In every state a session is authenticated exactly when the        *)
(* directory holds an entry whose value is the connection of that session. *)
(***************************************************************************)
C13_AuthenticatedIffListed ==
    \A c \in Conns :
        SessionOf(c)[2] <=> (\E i \in 1 .. Len(clients) : clients[i][2] = c)

(***************************************************************************)
(* C14.  In every state no two connections that are both open have         *)
(* session records with the same well-formed handle.                       *)
(***************************************************************************)
C14_DistinctHandles ==
    \A c1, c2 \in Conns :
        (/\ c1 # c2
         /\ sock[c1] = "open"
         /\ sock[c2] = "open"
         /\ WellFormedHandle(SessionOf(c1)[1]))
            => SessionOf(c2)[1] # SessionOf(c1)[1]

(***************************************************************************)
(* C15.  Once a connection has been answered HELLO h, its session record   *)
(* never carries a handle other than h: the record is (h, True) until it   *)
(* is removed, whatever lines the connection sends and whatever the other  *)
(* handlers do.                                                            *)
(***************************************************************************)
C15_HandleImmutable ==
    \A c \in Conns :
        hello_ack[c] # None =>
            (SessionOf(c)[1] = hello_ack[c] \/ ~Has(client_sockets, c))

(***************************************************************************)
(* C16.  When the handler of a connection has run its cleanup and ended,   *)
(* the directory holds no entry of that connection any more, so the handle *)
(* it was answered HELLO with is free for a later connection.              *)
(***************************************************************************)
C16_HandleReleased ==
    \A c \in Conns :
        pc[c] = "done" => \A i \in 1 .. Len(clients) : clients[i][2] # c

\* The texts that report an error of the request.
ErrorTexts == {BAD_RQST_HDR, BAD_RQST_BODY, IN_USE, BUSY, BAD_DEST_USER}

\* The case C17 is about: the handler of c has written an error text as the
\* first line of its answer, and no other thread has changed the shared state
\* since c received the line.
C17_Case(c) ==
    /\ Answered(c)
    /\ ~interfered[c]
    /\ Len(resp[c]) >= 1
    /\ resp[c][1].data \in ErrorTexts

(***************************************************************************)
(* C17.  A line answered BAD-RQST-HDR, BAD-RQST-BODY, IN-USE, BUSY or      *)
(* BAD-DEST-USER gets that one line and nothing else, written to the       *)
(* connection the line came from; when the write succeeds the directory    *)
(* and all session records are as they were before the line, and the       *)
(* socket has not been closed, so the handler goes on to the next line.    *)
(***************************************************************************)
C17_ErrorsLeaveStateAlone ==
    \A c \in Conns :
        C17_Case(c) =>
            /\ Len(resp[c]) = 1
            /\ resp[c][1].to = c
            /\ resp[c][1].ok => (DictsUnchanged(c) /\ sock[c] # "closed")

\* IN-USE written to a connection that asked for the handle of another one.
C17_Witness ==
    \E c \in Conns :
        /\ C17_Case(c)
        /\ OneAnswer(c, IN_USE)
        /\ resp[c][1].ok
        /\ \E d \in Conns \ {c} : hello_ack[d] = username(c)

(***************************************************************************)
(* C18.  No line a client sends makes the server close the connection:     *)
(* close() is called on a socket only after the remote end has closed it   *)
(* or a read or write on it has failed, never on a socket that is open at  *)
(* both ends.                                                              *)
(***************************************************************************)
C18_ClosedOnlyAfterEof ==
    [][\A c \in Conns : sock[c] = "open" => sock'[c] # "closed"]_vars

(***************************************************************************)
(* C19.  The handler of a connection that was answered HELLO with a         *)
(* well-formed handle, is open at both ends and processes a SEND never     *)
(* tears that connection down, whatever                                    *)
(* happens to the destination meanwhile: the sender is answered            *)
(* BAD-DEST-USER or SEND-OK and stays.                                     *)
(***************************************************************************)
C19_SenderSurvives ==
    \A c \in Conns :
        (/\ IsSend(message[c])
         /\ authenticated[c]
         /\ WellFormedHandle(hello_ack[c])
         /\ sock[c] = "open")
            => ~(pc[c] \in DcLabels /\ dc_target[c] = c)

\* The connections a write of the handler of c has failed on, for the line
\* it is processing.
FailedTargets(c) ==
    {resp[c][i].to : i \in {j \in 1 .. Len(resp[c]) : ~resp[c][j].ok}}

\* The case C20 is about: a write of the handler of c has failed, the
\* disconnect_client it called has returned, and no other thread has changed
\* the shared state since c received the line.
C20_Case(c) ==
    /\ pc[c] \in {"L169", "ret"}
    /\ ~interfered[c]
    /\ FailedTargets(c) # {}

(***************************************************************************)
(* C20.  After a write to a connection t has failed, the write is not      *)
(* repeated; t has no directory entry and no session record any more and   *)
(* its socket is closed; the directory entries and the session records of  *)
(* all other connections are as they were.                                 *)
(***************************************************************************)
C20_FailedWriteTearsDownTarget ==
    \A c \in Conns :
        C20_Case(c) =>
            /\ \A i, j \in 1 .. Len(resp[c]) :
                  (i < j /\ ~resp[c][i].ok) =>
                      ~(resp[c][j].to = resp[c][i].to /\ resp[c][j].data = resp[c][i].data)
            /\ \A t \in FailedTargets(c) :
                  /\ \A i \in 1 .. Len(clients) : clients[i][2] # t
                  /\ ~Has(client_sockets, t)
                  /\ sock[t] = "closed"
            /\ \A i \in 1 .. Len(snap[c][1]) :
                  snap[c][1][i][2] \notin FailedTargets(c) =>
                      /\ Has(clients, snap[c][1][i][1])
                      /\ Get(clients, snap[c][1][i][1]) = snap[c][1][i][2]
            /\ \A i \in 1 .. Len(snap[c][2]) :
                  snap[c][2][i][1] \notin FailedTargets(c) =>
                      /\ Has(client_sockets, snap[c][2][i][1])
                      /\ Get(client_sockets, snap[c][2][i][1]) = snap[c][2][i][2]

\* The line the handler of c is processing was a SEND whose DELIVERY write
\* failed.
DeliveryFailed(c) ==
    \E i \in 1 .. Len(resp[c]) :
        /\ resp[c][i].data[1] = "DELIVERY"
        /\ ~resp[c][i].ok

(***************************************************************************)
(* C21.  SEND-OK is written to the sender only when the DELIVERY line of   *)
(* that SEND was written to the destination: after a DELIVERY write that   *)
(* failed, the handler writes no SEND-OK for the same line.                *)
(***************************************************************************)
C21_SendOkOnlyIfDelivered ==
    \A c \in Conns :
        DeliveryFailed(c) =>
            ~\E j \in 1 .. Len(resp[c]) :
                resp[c][j].data = SEND_OK /\ resp[c][j].ok

(***************************************************************************)
(* C22.  A DELIVERY line is written only to a connection whose session     *)
(* record holds the destination handle of the SEND at the moment of the    *)
(* write.                                                                  *)
(***************************************************************************)
C22_DeliveryToHolder ==
    [][\A c \in Conns :
          (/\ pc[c] = "L166"
           /\ pc'[c] = "L169"
           /\ resp'[c][Len(resp'[c])].ok)
              => SessionOf(recipient_socket[c])[1] = dest_user(c)]_vars

\* C25: a failure of the accept step is logged and the accept loop goes on;
\* the loop is left only on an explicit shutdown.  As a step property: from
\* the except clause of line 272 the main thread goes back to the loop.
C25_AcceptFailureKeepsLoop ==
    [][main_pc = "L272" => main_pc' = "loop"]_vars

\* The second and later runs of cleanup: a step of the main thread after a
\* completed run.
LaterCleanupStep ==
    /\ cleanups >= 1
    /\ \/ main_pc' # main_pc
       \/ to_close' # to_close

\* C26: cleanup is idempotent: a second run, at any later point, leaves the
\* running flag, the listening socket, every client socket, the Directory
\* and the session table as they are.
C26_CleanupIdempotent ==
    [][LaterCleanupStep =>
          /\ running' = running
          /\ server_socket' = server_socket
          /\ sock' = sock
          /\ clients' = clients
          /\ client_sockets' = client_sockets]_vars

\* C27: after shutdown every connection is closed, its handler has ended
\* after its own cleanup, and the Directory and the session table are
\* empty.  As a state property: when the process has ended, both tables
\* are empty and no handler was cut short.
C27_TablesEmptyAtExit ==
    main_pc = "exited" =>
        /\ \A c \in Conns : pc[c] \in {"free", "done"}
        /\ clients = <<>>
        /\ client_sockets = <<>>

\* The part of the stream the reader has received so far.
Consumed == SubSeq(input, 1, Len(input) - Len(stream))

NlPos(s) == {i \in 1 .. Len(s) : s[i] = "\n"}

\* The k-th position of a delimiter in s.
NthNl(s, k) ==
    CHOOSE i \in NlPos(s) : Cardinality({j \in NlPos(s) : j <= i}) = k

\* The segments of s terminated by "\n", in order, without the delimiter.
Segments(s) ==
    [k \in 1 .. Cardinality(NlPos(s)) |->
        SubSeq(s, IF k = 1 THEN 1 ELSE NthNl(s, k - 1) + 1, NthNl(s, k) - 1)]

\* What follows the last delimiter of s.
Trailing(s) ==
    IF NlPos(s) = {} THEN s
    ELSE SubSeq(s, NthNl(s, Cardinality(NlPos(s))) + 1, Len(s))

\* C28: the lines handed to the command processing are exactly the
\* segments of the received stream that end in "\n", in order and without
\* the delimiter; the bytes after the last delimiter stay in the buffer.
C28_FramesAreSegments ==
    /\ emitted = Segments(Consumed)
    /\ frame_pc = "recv" => buffer = Trailing(Consumed)

\* The same for the streams that hold text only.
FramesOfTextAreSegments ==
    Decodable(input) =>
        /\ emitted = Segments(Consumed)
        /\ buffer = Trailing(Consumed)

\* The handler of c has finished a line that is LIST, a space and more.
C30_Case(c) ==
    /\ Answered(c)
    /\ IsList(message[c])
    /\ Len(Parts(message[c])) = 2

\* C30: a line "LIST", a space and any trailing content is treated as LIST:
\* an authenticated session is answered LIST-OK with the handles of the
\* directory, as for a bare LIST, and an unauthenticated one BAD-RQST-HDR.
C30_ListIgnoresTrailing ==
    \A c \in Conns :
        C30_Case(c) =>
            IF authenticated[c]
            THEN /\ Len(resp[c]) = 1
                 /\ resp[c][1].to = c
                 /\ resp[c][1].data[1] = "LIST-OK"
                 /\ ~interfered[c] =>
                       resp[c][1].data = ListOk(Join(Keys(snap[c][1])))
            ELSE OneAnswer(c, BAD_RQST_HDR)

C30_Witness ==
    \E c \in Conns :
        /\ C30_Case(c)
        /\ authenticated[c]
        /\ ~interfered[c]
        /\ resp[c][1].ok
        /\ Len(snap[c][1]) = 2

\* The response lines written to c itself for the line its handler is
\* processing; the DELIVERY lines of a SEND are not responses.
Responses(c) ==
    {i \in 1 .. Len(resp[c]) :
        resp[c][i].to = c /\ resp[c][i].data[1] # "DELIVERY"}

\* The handler of c gives up the line it has received: an exception takes
\* it out of the read loop (lines 217-219).
AbandonsLine(c) ==
    /\ pc'[c] = "dc47"
    /\ pc[c] \notin {"dc47", "ret"}
    /\ dc_ret'[c] = "done"
    /\ pc[c] = "idle" => nlines' # nlines

\* C29: every complete line received on an open connection is answered by
\* exactly one response line to that connection before its handler goes on
\* to the next line; no line is left without a response, none gets two.
C29_OneResponsePerLine ==
    [][\A c \in Conns :
          sock[c] = "open" =>
              /\ (pc[c] = "ret" /\ pc'[c] # "ret") =>
                     Cardinality(Responses(c)) = 1
              /\ ~AbandonsLine(c)]_vars

\* The lines the server writes in a run of SpecWire.
WireTexts ==
    ErrorTexts
        \cup {SEND_OK}
        \cup {Hello(h) : h \in {<<"a">>, <<"b">>}}
        \cup {Delivery(h, <<"hi">>) : h \in {<<"a">>, <<"b">>}}

\* C24: when two handlers write to one connection at the same time, the
\* bytes of each line reach it in one piece, also when a send takes only
\* part of the data: every complete line on the wire is a line some handler
\* wrote.
C24_LinesContiguous ==
    \A t \in Conns :
        \A k \in 1 .. Len(Segments(wire[t])) :
            Segments(wire[t])[k] \o <<"\n">> \in WireTexts

\* The same when no send is partial.
WholeSendsContiguous ==
    partials = 0 => C24_LinesContiguous

\* The last complete line on the wire of connection t.
LastLine(t) == Segments(wire[t])[Len(Segments(wire[t]))]

WholeSendsInOrder ==
    [][\A c \in Conns :
          (/\ partials = 0
           /\ pc[c] = "L166"
           /\ pc'[c] = "L169"
           /\ resp'[c][Len(resp'[c])].ok)
              => /\ Segments(wire'[recipient_socket[c]]) # <<>>
                 /\ Trailing(wire'[recipient_socket[c]]) = <<>>
                 /\ LastLine(recipient_socket[c])' \o <<"\n">>
                       = Delivery(sender_username[c], SendBody(Parts(message[c])))]_vars

\* The handler of c is processing a line of text whose keyword is none of
\* HELLO-FROM, LIST, SEND (the empty line is such a line).
C31_Case(c) ==
    /\ InFlight(c)
    /\ Decodable(message[c])
    /\ ~IsHello(message[c])
    /\ ~IsList(message[c])
    /\ ~IsSend(message[c])

\* C31: in either session state a line with an unknown keyword, the empty
\* line included, is answered BAD-RQST-HDR and nothing else, and changes
\* neither the directory nor any session.
C31_UnknownKeyword ==
    \A c \in Conns :
        C31_Case(c) =>
            /\ pc[c] \in {"reply", "ret"} \cup DcLabels
            /\ pc[c] = "reply" => (reply[c] = BAD_RQST_HDR /\ resp[c] = <<>>)
            /\ pc[c] # "reply" => OneAnswer(c, BAD_RQST_HDR)
            /\ (pc[c] = "ret" /\ resp[c][1].ok /\ ~interfered[c]) =>
                   (DictsUnchanged(c) /\ sock[c] # "closed")

\* The empty line of an authenticated connection, answered.
C31_Witness ==
    \E c \in Conns :
        /\ C31_Case(c)
        /\ pc[c] = "ret"
        /\ message[c] = <<>>
        /\ authenticated[c]
        /\ resp[c][1].ok
        /\ ~interfered[c]

\* The handler of c has answered a HELLO-FROM of an unauthenticated
\* connection that it received when the directory was at capacity, and no
\* other thread has changed the directory meanwhile.
C34_Case(c) ==
    /\ Answered(c)
    /\ IsHello(message[c])
    /\ ~authenticated[c]
    /\ ~interfered[c]
    /\ Len(snap[c][1]) >= max_users

\* C34: the checks of HELLO-FROM come in the order malformed handle, handle
\* in use, capacity: with a full directory a malformed handle is still
\* answered BAD-RQST-BODY, and a well-formed handle that is in the
\* directory is answered IN-USE, not BUSY.
C34_CheckOrder ==
    \A c \in Conns :
        C34_Case(c) =>
            /\ MalformedHello(message[c]) => OneAnswer(c, BAD_RQST_BODY)
            /\ (WellFormedHello(message[c]) /\ Has(snap[c][1], username(c)))
                   => OneAnswer(c, IN_USE)

\* The same for the malformations handle_hello_from tests for (lines 89-99):
\* a missing remainder and a handle with an illegal character.
DetectedChecksInOrder ==
    \A c \in Conns :
        C34_Case(c) =>
            /\ (\/ Len(Parts(message[c])) # 2
                \/ HasIllegalChar(username(c))) => OneAnswer(c, BAD_RQST_BODY)
            /\ (WellFormedHello(message[c]) /\ Has(snap[c][1], username(c)))
                   => OneAnswer(c, IN_USE)

\* C33: on every connection the HELLO line that authenticates it is written
\* before any DELIVERY line: a SEND that runs while the destination's
\* HELLO-FROM is being processed does not deliver ahead of the HELLO answer.
\* As a step property: a DELIVERY is written only to a connection that has
\* been written its HELLO.
C33_HelloBeforeDelivery ==
    [][\A c \in Conns :
          (/\ pc[c] = "L166"
           /\ pc'[c] = "L169"
           /\ resp'[c][Len(resp'[c])].ok)
              => hello_ack[recipient_socket[c]] # None]_vars

\* The handler of c runs line 49 of disconnect_client(dc_target[c]).
AtLine49(c) == pc[c] = "dc49" /\ pc'[c] # "dc49"

\* Line 49 deletes a directory entry only if it maps to the connection that
\* is being torn down.
DeletesOwnEntryOnly ==
    [][\A c \in Conns :
          (AtLine49(c) /\ clients' # clients)
              => Get(clients, dc_user[c]) = dc_target[c]]_vars

\* When line 49 finds the directory entry gone and disconnect_client ends
\* there, the connection is cleaned already or another thread is doing it.
EntryGoneStillCleaned ==
    [][\A c \in Conns :
          (AtLine49(c) /\ pc'[c] # "dc52")
              => \/ /\ ~Has(client_sockets, dc_target[c])
                    /\ sock[dc_target[c]] = "closed"
                 \/ \E d \in Conns \ {c} :
                       pc[d] \in DcLabels /\ dc_target[d] = dc_target[c]]_vars

\* C32: disconnect_client of a connection removes from the directory only
\* an entry whose value is that connection, and never leaves the session
\* record or the socket of the connection behind because the directory
\* entry was gone already.
C32_DisconnectOwnEntry ==
    [][\A c \in Conns :
          AtLine49(c) =>
              /\ clients' # clients => Get(clients, dc_user[c]) = dc_target[c]
              /\ pc'[c] # "dc52" =>
                    \/ /\ ~Has(client_sockets, dc_target[c])
                       /\ sock[dc_target[c]] = "closed"
                    \/ \E d \in Conns \ {c} :
                          pc[d] \in DcLabels /\ dc_target[d] = dc_target[c]]_vars

=============================================================================
